---- MODULE Spec2Model ----
(***************************************************************************)
(* A model of the todo command-line task manager: the record model and its *)
(* JSON encoding (todo/models/record.py), the storage manager and the id   *)
(* generator (src/storage.py) and the command handlers with their filter   *)
(* and sort (todo/core/todo.py).                                           *)
(*                                                                         *)
(* Conventions.  An Optional value is a sequence of length at most one:    *)
(* None is << >> and a present value v is << v >>.  A datetime is a record *)
(* [sec, us] ordered lexicographically.  A path is a record [abs, parts].  *)
(* A string that holds a path is the sequence of its components, "/" first *)
(* when absolute and << "." >> for the empty relative path.  The text of   *)
(* the storage file is a sequence of tokens: "[", one token per JSON       *)
(* object, "]".                                                            *)
(***************************************************************************)
EXTENDS Integers, Sequences, FiniteSets, TLC

VARIABLES
    now,    \* the wall clock, a datetime
    disk,   \* the file system: the directories that exist, and data/todo.json
    last,   \* the last command run, its arguments and what it reported
    pc,     \* where the function or the save in progress stands
    input,  \* what the function or the save in progress was given
    output  \* what the function in progress returned

vars == <<now, disk, last, pc, input, output>>

fvars == <<pc, input, output>>

----------------------------------------------------------------------------
(* Bounds of the model *)

MaxClock == 1
MaxMicro == 1
MaxTodos == 2
MaxFolderDepth == 3
MaxRecs == 2
MaxSortLen == 3
MaxListLen == 2

----------------------------------------------------------------------------
(* Optional values and Python truthiness *)

None == << >>

Some(v) == << v >>

Truthy(o) == o # << >> /\ o # << "" >>

----------------------------------------------------------------------------
(* pathlib.Path *)

Path(parts) == [abs |-> FALSE, parts |-> parts]

PathOf(s) ==
    IF s # << >> /\ s[1] = "/"
    THEN [abs |-> TRUE, parts |-> SelectSeq(Tail(s), LAMBDA c : c # ".")]
    ELSE [abs |-> FALSE, parts |-> SelectSeq(s, LAMBDA c : c # ".")]

PathStr(p) ==
    IF p.abs THEN << "/" >> \o p.parts
    ELSE IF p.parts = << >> THEN << "." >>
    ELSE p.parts

PathJoin(base, s) ==
    LET q == PathOf(s)
    IN  IF q.abs THEN q ELSE [abs |-> base.abs, parts |-> base.parts \o q.parts]

PathExists(p, ds) == p \in ds

PathChild(p, name) == [p EXCEPT !.parts = @ \o << name >>]

Root == Path(<< "data" >>)

TodoFileName == "todo.json"

----------------------------------------------------------------------------
(* datetime *)

DatetimeMax == [sec |-> 9999, us |-> 999999]

Epoch == [sec |-> 0, us |-> 0]

DatetimeLess(a, b) == a.sec < b.sec \/ (a.sec = b.sec /\ a.us < b.us)

isoformat(d) == IF d.us = 0 THEN << d.sec >> ELSE << d.sec, d.us >>

fromisoformat(s) ==
    IF Len(s) = 1 THEN [sec |-> s[1], us |-> 0] ELSE [sec |-> s[1], us |-> s[2]]

DateTable ==
    [t \in {"2024-01-01", "2024-06-01", "2024-06-10"} |->
        CASE t = "2024-01-01" -> [sec |-> 1, us |-> 0]
          [] t = "2024-06-01" -> [sec |-> 2, us |-> 0]
          [] t = "2024-06-10" -> [sec |-> 3, us |-> 0]]

strptime_ok(text) == text \in DOMAIN DateTable

strptime(text) == DateTable[text]

----------------------------------------------------------------------------
(* TodoRecord and its JSON encoding *)

TodoRecord(id, created_at, completed, category, description, priority, due_date, folder, data_file) ==
    [id |-> id, created_at |-> created_at, completed |-> completed,
     category |-> category, description |-> description, priority |-> priority,
     due_date |-> due_date, folder |-> folder, data_file |-> data_file]

Get(payload, key, default) ==
    IF key \in DOMAIN payload THEN payload[key] ELSE default

metadata_to_json_dict(r) ==
    [id |-> r.id,
     created_at |-> isoformat(r.created_at),
     completed |-> r.completed,
     category |-> r.category,
     description |-> r.description,
     priority |-> r.priority,
     due_date |-> IF r.due_date # None THEN Some(isoformat(r.due_date[1])) ELSE None]

to_json_dict(r) ==
    LET data == metadata_to_json_dict(r) @@ [folder |-> PathStr(r.folder)]
    IN  IF r.data_file # None
        THEN data @@ [data_file |-> PathStr(r.data_file[1])]
        ELSE data

from_json_dict(payload, base_dir, ds) ==
    LET folder == PathJoin(base_dir, Get(payload, "folder", << >>))
        data_file == IF PathExists(folder, ds)
                     THEN Some(PathChild(folder, TodoFileName))
                     ELSE None
        due == Get(payload, "due_date", None)
        due_date == IF due # None THEN Some(fromisoformat(due[1])) ELSE None
    IN  TodoRecord(payload.id,
                   fromisoformat(payload.created_at),
                   Get(payload, "completed", FALSE),
                   Get(payload, "category", << >>),
                   Get(payload, "description", None),
                   Get(payload, "priority", None),
                   due_date,
                   folder,
                   data_file)

----------------------------------------------------------------------------
(* The text of the storage file *)

Open == [k |-> "["]

Close == [k |-> "]"]

Obj(d) == [k |-> "obj", v |-> d]

json_dump(data) ==
    << Open >> \o [i \in 1..Len(data) |-> Obj(data[i])] \o << Close >>

json_valid(text) ==
    /\ Len(text) >= 2
    /\ text[1] = Open
    /\ text[Len(text)] = Close
    /\ \A i \in 2..(Len(text) - 1) : text[i].k = "obj"

json_load(text) == [i \in 1..(Len(text) - 2) |-> text[i + 1].v]

EmptyArrayText == << Open, Close >>

----------------------------------------------------------------------------
(* TodoStorage: every operator takes the file system and returns the new   *)
(* one, with the returned value beside it where there is one               *)

_ensure_todo_file_always_writes(d) ==
    [dirs |-> d.dirs \cup {Root}, exists |-> TRUE, text |-> EmptyArrayText]

_ensure_todo_file(d) ==
    [dirs |-> d.dirs \cup {Root},
     exists |-> TRUE,
     text |-> IF d.exists THEN d.text ELSE EmptyArrayText]

load_todos(d) ==
    IF ~d.exists THEN << >>
    ELSE LET data == json_load(d.text)
         IN  [i \in 1..Len(data) |-> from_json_dict(data[i], Root, d.dirs)]

save_todos(d, todos) ==
    LET data == [i \in 1..Len(todos) |-> to_json_dict(todos[i])]
    IN  [d EXCEPT !.exists = TRUE, !.text = json_dump(data)]

add_todo(d, todo) ==
    LET todos == load_todos(d)
    IN  save_todos(d, Append(todos, todo))

remove_todo_always_saves(d, todo_id) ==
    LET todos == load_todos(d)
        filtered == SelectSeq(todos, LAMBDA t : t.id # todo_id)
    IN  [disk |-> save_todos(d, filtered), ret |-> Len(filtered) # Len(todos)]

remove_todo(d, todo_id) ==
    LET todos == load_todos(d)
        filtered == SelectSeq(todos, LAMBDA t : t.id # todo_id)
    IN  IF Len(filtered) = Len(todos)
        THEN [disk |-> d, ret |-> FALSE]
        ELSE [disk |-> save_todos(d, filtered), ret |-> TRUE]

get_todo(d, todo_id) ==
    LET todos == load_todos(d)
        hits == {i \in 1..Len(todos) : todos[i].id = todo_id}
    IN  IF hits = {} THEN None
        ELSE Some(todos[CHOOSE i \in hits : \A j \in hits : i <= j])

mark_completed(d, todo_id) ==
    LET todos == load_todos(d)
        hits == {i \in 1..Len(todos) : todos[i].id = todo_id}
    IN  IF hits = {} THEN [disk |-> d, ret |-> FALSE]
        ELSE LET first == CHOOSE i \in hits : \A j \in hits : i <= j
             IN  [disk |-> save_todos(d, [todos EXCEPT ![first].completed = TRUE]),
                  ret |-> TRUE]

generate_todo_id(t) == << "todo", t.sec >>

----------------------------------------------------------------------------
(* Command-line arguments (main.parse_args): an absent option is None *)

Priorities == {"Low", "Med", "High"}

OptPriorities == {None} \cup {Some(p) : p \in Priorities}

Args(add, list, complete, delete, category, priority, due, completed, pending) ==
    [add |-> add, list |-> list, complete |-> complete, delete |-> delete,
     category |-> category, priority |-> priority, due |-> due,
     completed |-> completed, pending |-> pending]

NoArgs == Args(None, FALSE, None, None, None, None, None, FALSE, FALSE)

validate_args(args) == ~(args.completed /\ args.pending)

----------------------------------------------------------------------------
(* Filter and sort (todo/core/todo.py) *)

Keeps_ignores_pending(todo, args) ==
    /\ ~(Truthy(args.category)
          /\ ~(\E i \in 1..Len(todo.category) : todo.category[i] = args.category[1]))
    /\ ~(Truthy(args.priority) /\ todo.priority # args.priority)
    /\ ~(args.completed /\ ~todo.completed)

Keeps(todo, args) ==
    /\ ~(Truthy(args.category)
          /\ ~(\E i \in 1..Len(todo.category) : todo.category[i] = args.category[1]))
    /\ ~(Truthy(args.priority) /\ todo.priority # args.priority)
    /\ ~(args.completed /\ ~todo.completed)
    /\ ~(args.pending /\ todo.completed)

_filtered_list(d, args) ==
    LET todos == load_todos(d)
    IN  IF todos = << >> THEN None
        ELSE Some(SelectSeq(todos, LAMBDA todo : Keeps(todo, args)))

PriorityRank(priority) ==
    IF priority = Some("High") THEN 1
    ELSE IF priority = Some("Med") THEN 2
    ELSE IF priority = Some("Low") THEN 3
    ELSE 4

SortKey_unset_due_first(x) ==
    [rank |-> PriorityRank(x.priority),
     due |-> IF x.due_date # None THEN x.due_date[1] ELSE Epoch]

SortKey(x) ==
    [rank |-> PriorityRank(x.priority),
     due |-> IF x.due_date # None THEN x.due_date[1] ELSE DatetimeMax]

KeyLess(a, b) ==
    a.rank < b.rank \/ (a.rank = b.rank /\ DatetimeLess(a.due, b.due))

RECURSIVE InsertStable(_, _)
InsertStable(s, x) ==
    IF s = << >> THEN << x >>
    ELSE IF KeyLess(SortKey(x), SortKey(s[Len(s)]))
         THEN Append(InsertStable(SubSeq(s, 1, Len(s) - 1), x), s[Len(s)])
         ELSE Append(s, x)

RECURSIVE StableSort(_)
StableSort(s) ==
    IF s = << >> THEN << >>
    ELSE InsertStable(StableSort(SubSeq(s, 1, Len(s) - 1)), s[Len(s)])

\* todos: the caller's list after the call (the sort acts on a copy of it);
\* ret: the returned value
_sort_todo_list(todos) ==
    IF todos = << >> THEN [todos |-> todos, ret |-> None]
    ELSE [todos |-> todos, ret |-> Some(StableSort(todos))]

----------------------------------------------------------------------------
(* What a command reports *)

Report(op, args, ret, todo, filtered, out, warn) ==
    [op |-> op, args |-> args, ret |-> ret, todo |-> todo,
     filtered |-> filtered, out |-> out, warn |-> warn]

NoReport(op) == Report(op, NoArgs, FALSE, None, None, None, FALSE)

NextInstant(t) ==
    IF t.us < MaxMicro THEN [t EXCEPT !.us = @ + 1]
    ELSE [sec |-> t.sec + 1, us |-> 0]

FolderDepthOk(d) ==
    LET todos == load_todos(d)
    IN  \A i \in 1..Len(todos) : Len(todos[i].folder.parts) <= MaxFolderDepth

----------------------------------------------------------------------------
(* The commands: run_todo_app constructs the storage (which ensures the    *)
(* file) and dispatches to one handler                                     *)

handle_add_task_aborts_on_bad_due(d, args, t) ==
    LET due_ok == Truthy(args.due) /\ strptime_ok(args.due[1])
        due_date == IF due_ok THEN Some(strptime(args.due[1])) ELSE None
        todo == TodoRecord(generate_todo_id(t), t, FALSE,
                           IF Truthy(args.category) THEN << args.category[1] >> ELSE << >>,
                           args.add, args.priority, due_date,
                           Path(<< "data" >>), None)
    IN  [disk |-> IF Truthy(args.due) /\ ~due_ok THEN d ELSE add_todo(d, todo),
         todo |-> todo,
         warn |-> Truthy(args.due) /\ ~due_ok]

handle_add_task(d, args, t) ==
    LET due_ok == Truthy(args.due) /\ strptime_ok(args.due[1])
        due_date == IF due_ok THEN Some(strptime(args.due[1])) ELSE None
        todo == TodoRecord(generate_todo_id(t), t, FALSE,
                           IF Truthy(args.category) THEN << args.category[1] >> ELSE << >>,
                           args.add, args.priority, due_date,
                           Path(<< "data" >>), None)
    IN  [disk |-> add_todo(d, todo), todo |-> todo,
         warn |-> Truthy(args.due) /\ ~due_ok]

handle_list_tasks(d, args) ==
    LET filtered == _filtered_list(d, args)
        sorted == IF filtered # None /\ filtered[1] # << >>
                  THEN _sort_todo_list(filtered[1]).ret ELSE None
    IN  [filtered |-> filtered, out |-> sorted]

AddCmd(args) ==
    LET d == _ensure_todo_file(disk)
        r == handle_add_task(d, args, now)
    IN  /\ validate_args(args)
        /\ Truthy(args.add)
        /\ Len(load_todos(d)) < MaxTodos
        /\ FolderDepthOk(d)
        /\ now.us < MaxMicro \/ now.sec < MaxClock
        /\ disk' = r.disk
        /\ now' = NextInstant(now)
        /\ last' = Report("add", args, TRUE, Some(r.todo), None, None, r.warn)
        /\ UNCHANGED fvars

ListCmd(args) ==
    LET d == _ensure_todo_file(disk)
        r == handle_list_tasks(d, args)
    IN  /\ validate_args(args)
        /\ ~Truthy(args.add)
        /\ args.list \/ args.completed \/ args.pending
        /\ disk' = d
        /\ last' = Report("list", args, r.out # None, None, r.filtered, r.out, FALSE)
        /\ UNCHANGED <<now, fvars>>

CompleteCmd(args) ==
    LET d == _ensure_todo_file(disk)
        r == mark_completed(d, args.complete[1])
    IN  /\ validate_args(args)
        /\ ~Truthy(args.add)
        /\ ~(args.list \/ args.completed \/ args.pending)
        /\ Truthy(args.complete)
        /\ FolderDepthOk(d)
        /\ disk' = r.disk
        /\ last' = Report("complete", args, r.ret, None, None, None, ~r.ret)
        /\ UNCHANGED <<now, fvars>>

DeleteCmd(args) ==
    LET d == _ensure_todo_file(disk)
        r == remove_todo(d, args.delete[1])
    IN  /\ validate_args(args)
        /\ ~Truthy(args.add)
        /\ ~(args.list \/ args.completed \/ args.pending)
        /\ ~Truthy(args.complete)
        /\ Truthy(args.delete)
        /\ FolderDepthOk(d)
        /\ disk' = r.disk
        /\ last' = Report("delete", args, r.ret, None, None, None, ~r.ret)
        /\ UNCHANGED <<now, fvars>>

Tick ==
    /\ \/ now.us < MaxMicro /\ now' = [now EXCEPT !.us = @ + 1]
       \/ now.sec < MaxClock /\ now' = [sec |-> now.sec + 1, us |-> 0]
    /\ last' = NoReport("tick")
    /\ UNCHANGED <<disk, fvars>>

----------------------------------------------------------------------------
(* The storage lifecycle: commands run one after another from a fresh      *)
(* system, where neither data/ nor data/todo.json exists                   *)

IdArgs == {generate_todo_id([sec |-> s, us |-> 0]) : s \in 0..MaxClock}

AddArgs ==
    {Args(Some("task"), FALSE, None, None, o[1], o[2], o[3], FALSE, FALSE) :
        o \in {<<None, None, None>>,
               <<Some("work"), Some("High"), Some("2024-06-01")>>,
               <<Some("work"), Some("Low"), Some("tomorrow")>>,
               <<None, None, Some("")>>}}

ListArgs ==
    {Args(None, TRUE, None, None, None, None, None, FALSE, FALSE),
     Args(None, FALSE, None, None, None, None, None, TRUE, FALSE),
     Args(None, FALSE, None, None, Some("work"), None, None, FALSE, TRUE)}

CompleteArgs ==
    {Args(None, FALSE, Some(id), None, None, None, None, FALSE, FALSE) : id \in IdArgs}

DeleteArgs ==
    {Args(None, FALSE, None, Some(id), None, None, None, FALSE, FALSE) : id \in IdArgs}

NoDisk == [dirs |-> {}, exists |-> FALSE, text |-> << >>]

Init ==
    /\ now = Epoch
    /\ disk = NoDisk
    /\ last = NoReport("init")
    /\ pc = "idle"
    /\ input = << >>
    /\ output = << >>

Next ==
    \/ Tick
    \/ \E args \in AddArgs : AddCmd(args)
    \/ \E args \in ListArgs : ListCmd(args)
    \/ \E args \in CompleteArgs : CompleteCmd(args)
    \/ \E args \in DeleteArgs : DeleteCmd(args)

Spec == Init /\ [][Next]_vars

----------------------------------------------------------------------------
(* Properties of the storage lifecycle, stated for Spec *)

Stored(d) == json_load(d.text)

HasId(d, todo_id) ==
    \E i \in 1..Len(load_todos(d)) : load_todos(d)[i].id = todo_id

\* C1: no two records in the storage file have the same id, in every state
\* reachable by add, remove and mark_completed from an empty store.
C1_UniqueIds ==
    disk.exists =>
        \A i, j \in 1..Len(Stored(disk)) :
            i # j => Stored(disk)[i].id # Stored(disk)[j].id

\* C4: add_todo(r) makes the stored count one greater, leaves the previously
\* stored records unchanged and in the same order, and get_todo(r.id) then
\* returns r.
C4_AddAppendsAndIsRetrievable ==
    [][last'.op = "add" =>
        LET d == _ensure_todo_file(disk)
            r == last'.todo[1]
        IN  /\ Len(Stored(disk')) = Len(Stored(d)) + 1
            /\ SubSeq(Stored(disk'), 1, Len(Stored(d))) = Stored(d)
            /\ get_todo(disk', r.id) = Some(r)]_vars

\* C5: remove_todo(id) of an id that is present returns true, decreases the
\* stored count by exactly one, and a following get_todo(id) returns None.
C5_RemoveExisting ==
    [][(last'.op = "delete" /\ HasId(_ensure_todo_file(disk), last'.args.delete[1])) =>
        LET d == _ensure_todo_file(disk)
        IN  /\ last'.ret
            /\ Len(Stored(disk')) = Len(Stored(d)) - 1
            /\ get_todo(disk', last'.args.delete[1]) = None]_vars

\* C6: remove_todo(id) and mark_completed(id) of an id that no stored record
\* has each return false and leave the content of the storage file as it was.
C6_MissingIdNoMutation ==
    [][/\ (last'.op = "delete" /\ ~HasId(_ensure_todo_file(disk), last'.args.delete[1])) =>
            (~last'.ret /\ disk' = _ensure_todo_file(disk))
       /\ (last'.op = "complete" /\ ~HasId(_ensure_todo_file(disk), last'.args.complete[1])) =>
            (~last'.ret /\ disk' = _ensure_todo_file(disk))]_vars

C6_Witness ==
    /\ last.op \in {"delete", "complete"}
    /\ ~last.ret
    /\ Len(Stored(disk)) = MaxTodos

\* C7: mark_completed(id) of an id that is present returns true; afterwards
\* the stored record with that id has completed = true, its other fields are
\* as before, and every other stored record is as before.
C7_MarkCompletedFrame ==
    [][(last'.op = "complete" /\ HasId(_ensure_todo_file(disk), last'.args.complete[1])) =>
        LET before == Stored(_ensure_todo_file(disk))
            after == Stored(disk')
        IN  /\ last'.ret
            /\ Len(after) = Len(before)
            /\ \A i \in 1..Len(before) :
                    after[i] = IF before[i].id = last'.args.complete[1]
                               THEN [before[i] EXCEPT !.completed = TRUE]
                               ELSE before[i]]_vars

----------------------------------------------------------------------------
(* The record codec and the file round trip, applied to given records *)

SeqsUpTo(S, n) == UNION {[1..k -> S] : k \in 1..n}

AbsDir == [abs |-> TRUE, parts |-> << "srv" >>]

CodecMeta ==
    {[id |-> generate_todo_id(Epoch), created_at |-> Epoch, completed |-> FALSE,
      category |-> << >>, description |-> None, priority |-> None, due_date |-> None],
     [id |-> generate_todo_id([sec |-> 1, us |-> 0]),
      created_at |-> [sec |-> 1, us |-> 1], completed |-> TRUE,
      category |-> << "work" >>, description |-> Some("task"),
      priority |-> Some("High"), due_date |-> Some(strptime("2024-06-01"))]}

CodecFolders ==
    {[folder |-> f, data_file |-> IF b THEN Some(PathChild(f, TodoFileName)) ELSE None] :
        f \in {Path(<< >>), Path(<< "data" >>), AbsDir}, b \in BOOLEAN}

CodecRecords ==
    {TodoRecord(m.id, m.created_at, m.completed, m.category, m.description,
                m.priority, m.due_date, f.folder, f.data_file) :
        m \in CodecMeta, f \in CodecFolders}

InitCodec ==
    /\ now = Epoch
    /\ disk \in {[dirs |-> ds, exists |-> TRUE, text |-> EmptyArrayText] :
                    ds \in {{Root}, {Root, AbsDir}}}
    /\ last = NoReport("init")
    /\ pc = "start"
    /\ input \in SeqsUpTo(CodecRecords, MaxRecs)
    /\ output = << >>

Encode ==
    /\ pc = "start"
    /\ output' = [i \in 1..Len(input) |-> to_json_dict(input[i])]
    /\ pc' = "encoded"
    /\ UNCHANGED <<now, disk, last, input>>

Decode ==
    /\ pc = "encoded"
    /\ output' = [i \in 1..Len(output) |-> from_json_dict(output[i], Root, disk.dirs)]
    /\ pc' = "decoded"
    /\ UNCHANGED <<now, disk, last, input>>

Save ==
    /\ pc = "start"
    /\ disk' = save_todos(disk, input)
    /\ pc' = "saved"
    /\ UNCHANGED <<now, last, input, output>>

Load ==
    /\ pc = "saved"
    /\ output' = load_todos(disk)
    /\ pc' = "loaded"
    /\ UNCHANGED <<now, disk, last, input>>

NextCodec == Encode \/ Decode \/ Save \/ Load

SpecCodec == InitCodec /\ [][NextCodec]_vars

\* C2: decoding the encoding of a valid record, with the storage root as base
\* directory, yields a record equal to it in every field.
C2_RoundTrip ==
    pc = "decoded" => \A i \in 1..Len(input) : output[i] = input[i]

\* C3: load_todos after save_todos(records) returns a sequence of the same
\* length whose i-th element equals the i-th element of records.
C3_LoadAfterSave ==
    pc = "loaded" =>
        /\ Len(output) = Len(input)
        /\ \A i \in 1..Len(input) : output[i] = input[i]

----------------------------------------------------------------------------
(* _sort_todo_list applied to given lists.  The i-th record of a list has  *)
(* the id of second i, so records with equal keys stay distinguishable     *)

OptDueDates == {None} \cup {Some(DateTable[t]) : t \in DOMAIN DateTable}

SortRecord(i, priority, due_date) ==
    TodoRecord(generate_todo_id([sec |-> i, us |-> 0]), Epoch, FALSE, << >>,
               Some("task"), priority, due_date, PathJoin(Root, << "data" >>), None)

SortInputs ==
    {[i \in 1..Len(ks) |-> SortRecord(i, ks[i][1], ks[i][2])] :
        ks \in SeqsUpTo(OptPriorities \X OptDueDates, MaxSortLen)}

ExampleInput ==
    << SortRecord(1, Some("Med"), Some(strptime("2024-06-01"))),
       SortRecord(2, Some("High"), Some(strptime("2024-06-10"))),
       SortRecord(3, Some("Low"), None),
       SortRecord(4, None, Some(strptime("2024-01-01"))) >>

InitSort ==
    /\ now = Epoch
    /\ disk = _ensure_todo_file(NoDisk)
    /\ last = NoReport("init")
    /\ pc = "start"
    /\ input \in SortInputs \cup {ExampleInput}
    /\ output = << >>

SortStep ==
    /\ pc = "start"
    /\ LET r == _sort_todo_list(input)
       IN  /\ input' = r.todos
           /\ output' = r.ret
    /\ pc' = "sorted"
    /\ UNCHANGED <<now, disk, last>>

NextSort == SortStep

SpecSort == InitSort /\ [][NextSort]_vars

ClaimRank(priority) ==
    CASE priority = Some("High") -> 1
      [] priority = Some("Med") -> 2
      [] priority = Some("Low") -> 3
      [] OTHER -> 4

\* a is due no later than b, an unset due date coming after every set one
DueNotAfter(a, b) ==
    \/ b.due_date = None
    \/ a.due_date # None /\ ~DatetimeLess(b.due_date[1], a.due_date[1])

Position(s, x) == CHOOSE i \in 1..Len(s) : s[i] = x

IsStableSortOf(out, in) ==
    /\ Len(out) = Len(in)
    /\ \A i \in 1..Len(in) : \E j \in 1..Len(out) : out[j] = in[i]
    /\ \A j, k \in 1..Len(out) :
            j < k =>
                /\ ClaimRank(out[j].priority) <= ClaimRank(out[k].priority)
                /\ ClaimRank(out[j].priority) = ClaimRank(out[k].priority) =>
                        DueNotAfter(out[j], out[k])
                /\ (/\ ClaimRank(out[j].priority) = ClaimRank(out[k].priority)
                    /\ out[j].due_date = out[k].due_date) =>
                        Position(in, out[j]) < Position(in, out[k])

\* C9: for a non-empty list _sort_todo_list returns a permutation of it ordered
\* by priority rank (High=1, Med=2, Low=3, unset=4), then by due date with an
\* unset date last; equal keys keep their input order, the input list is not
\* modified, and A(Med, 06-01), B(High, 06-10), C(Low, none), D(unset, 01-01)
\* sort to [B, A, C, D].
C9_StableSortByPriorityThenDue ==
    [][(pc = "start" /\ pc' = "sorted") =>
        /\ input' = input
        /\ output' # None
        /\ IsStableSortOf(output'[1], input)
        /\ input = ExampleInput =>
                output'[1] = << ExampleInput[2], ExampleInput[1],
                               ExampleInput[3], ExampleInput[4] >>]_vars

C9_Witness ==
    /\ pc = "sorted"
    /\ Len(input) = MaxSortLen
    /\ output[1] # input
    /\ \E j \in 1..(Len(input) - 1) :
            /\ SortKey(output[1][j]) = SortKey(output[1][j + 1])
            /\ output[1][j].due_date = None

----------------------------------------------------------------------------
(* The list command applied to given stored collections *)

ListRecord(i, category, priority, completed) ==
    TodoRecord(generate_todo_id([sec |-> i, us |-> 0]), Epoch, completed, category,
               Some("task"), priority, None, Path(<< "data" >>), None)

ListShapes ==
    {<< >>, << "work" >>, << "home" >>} \X {None, Some("High"), Some("Low")} \X BOOLEAN

ListStores ==
    {[i \in 1..Len(ks) |-> ListRecord(i, ks[i][1], ks[i][2], ks[i][3])] :
        ks \in SeqsUpTo(ListShapes, MaxListLen)}

ExampleStore ==
    << ListRecord(1, << "work" >>, None, FALSE),
       ListRecord(2, << "home" >>, None, FALSE),
       ListRecord(3, << >>, None, FALSE) >>

FilterArgs ==
    {Args(None, TRUE, None, None, c, p, None, f[1], f[2]) :
        c \in {None, Some(""), Some("work"), Some("home")},
        p \in OptPriorities,
        f \in {<<FALSE, FALSE>>, <<TRUE, FALSE>>, <<FALSE, TRUE>>}}

InitList ==
    /\ now = Epoch
    /\ disk \in {save_todos(_ensure_todo_file(NoDisk), todos) :
                    todos \in ListStores \cup {<< >>, ExampleStore}}
    /\ last = NoReport("init")
    /\ pc = "idle"
    /\ input = << >>
    /\ output = << >>

\* one listing of each given store: a listing leaves the store as it is, so a
\* second one would only repeat the first
NextList == \E args \in FilterArgs : last.op = "init" /\ ListCmd(args)

SpecList == InitList /\ [][NextList]_vars

Member(x, s) == \E i \in 1..Len(s) : s[i] = x

\* the claim's condition on a record, with what counts as an absent category
\* filter left open
Satisfies(todo, args, category_absent) ==
    /\ category_absent \/ Member(args.category[1], todo.category)
    /\ args.priority = None \/ todo.priority = args.priority
    /\ ~args.completed \/ todo.completed
    /\ ~args.pending \/ ~todo.completed

\* C10 as stated: for a non-empty store _filtered_list returns exactly the
\* stored records, in stored order, whose category sequence holds the category
\* filter unless it is absent, whose priority equals the priority filter unless
\* it is absent, and that are completed (not completed) when the completed
\* (pending) filter is requested; the store is not modified.
C10_FilterAsStated ==
    [][(last'.op = "list" /\ load_todos(_ensure_todo_file(disk)) # << >>) =>
        /\ last'.filtered =
               Some(SelectSeq(load_todos(_ensure_todo_file(disk)),
                              LAMBDA t : Satisfies(t, last'.args,
                                                   last'.args.category = None)))
        /\ disk' = _ensure_todo_file(disk)]_vars

\* C10 amended: the same, an empty-string category filter counting as absent.
C10_FilterEmptyCategoryIsAbsent ==
    [][(last'.op = "list" /\ load_todos(_ensure_todo_file(disk)) # << >>) =>
        /\ last'.filtered =
               Some(SelectSeq(load_todos(_ensure_todo_file(disk)),
                              LAMBDA t : Satisfies(t, last'.args,
                                                   last'.args.category \in {None, Some("")})))
        /\ disk' = _ensure_todo_file(disk)]_vars

C10_Witness ==
    /\ last.op = "list"
    /\ last.args.category = Some("work")
    /\ Len(load_todos(disk)) = 3
    /\ last.filtered = Some(<< load_todos(disk)[1] >>)

----------------------------------------------------------------------------
(* save_todos step by step: open(filepath, "w") truncates the file, json.dump *)
(* then writes the text piece by piece, and leaving the with block closes the *)
(* file.  The process may be interrupted while the file is open.              *)

save_open(d) == [d EXCEPT !.exists = TRUE, !.text = << >>]

save_write(d, text) == [d EXCEPT !.text = Append(@, text[Len(@) + 1])]

BeginSave(d, saved, report) ==
    /\ pc = "idle"
    /\ json_valid(d.text)
    /\ FolderDepthOk(d)
    /\ disk' = save_open(d)
    /\ input' = [old |-> d.text, new |-> saved.text, report |-> report]
    /\ pc' = "writing"
    /\ UNCHANGED <<last, output>>

StartAdd(args) ==
    LET d == _ensure_todo_file(disk)
        r == handle_add_task(d, args, now)
    IN  /\ validate_args(args)
        /\ Truthy(args.add)
        /\ Len(load_todos(d)) < MaxTodos
        /\ now.us < MaxMicro \/ now.sec < MaxClock
        /\ BeginSave(d, r.disk, Report("add", args, TRUE, Some(r.todo), None, None, r.warn))
        /\ now' = NextInstant(now)

StartComplete(args) ==
    LET d == _ensure_todo_file(disk)
        r == mark_completed(d, args.complete[1])
    IN  /\ validate_args(args)
        /\ ~Truthy(args.add)
        /\ ~(args.list \/ args.completed \/ args.pending)
        /\ Truthy(args.complete)
        /\ r.ret
        /\ BeginSave(d, r.disk, Report("complete", args, r.ret, None, None, None, FALSE))
        /\ UNCHANGED now

StartDelete(args) ==
    LET d == _ensure_todo_file(disk)
        r == remove_todo(d, args.delete[1])
    IN  /\ validate_args(args)
        /\ ~Truthy(args.add)
        /\ ~(args.list \/ args.completed \/ args.pending)
        /\ ~Truthy(args.complete)
        /\ Truthy(args.delete)
        /\ r.ret
        /\ BeginSave(d, r.disk, Report("delete", args, r.ret, None, None, None, FALSE))
        /\ UNCHANGED now

WriteChunk ==
    /\ pc = "writing"
    /\ Len(disk.text) < Len(input.new)
    /\ disk' = save_write(disk, input.new)
    /\ UNCHANGED <<now, last, fvars>>

FinishSave ==
    /\ pc = "writing"
    /\ disk.text = input.new
    /\ pc' = "idle"
    /\ last' = input.report
    /\ UNCHANGED <<now, disk, input, output>>

Interrupt ==
    /\ pc = "writing"
    /\ pc' = "idle"
    /\ last' = NoReport("interrupted")
    /\ UNCHANGED <<now, disk, input, output>>

\* a later command on a file that json.load cannot parse ends in an error
LoadFails ==
    /\ pc = "idle"
    /\ disk.exists
    /\ ~json_valid(disk.text)
    /\ last' = NoReport("load_error")
    /\ UNCHANGED <<now, disk, fvars>>

NextCrash ==
    \/ Tick
    \/ \E args \in AddArgs : StartAdd(args)
    \/ \E args \in CompleteArgs : StartComplete(args)
    \/ \E args \in DeleteArgs : StartDelete(args)
    \/ WriteChunk
    \/ FinishSave
    \/ Interrupt
    \/ LoadFails

SpecCrash == Init /\ [][NextCrash]_vars

\* C8: an interruption during a save of a non-empty collection leaves the
\* storage file holding the complete old content or the complete new content,
\* so no later load sees a truncated, empty or partly written file.
C8_SaveIsAtomic ==
    (last.op = "interrupted" /\ Len(input.new) > 2) =>
        /\ disk.text \in {input.old, input.new}
        /\ json_valid(disk.text)

----------------------------------------------------------------------------
(* Invalid due-date text on add, stated for Spec *)

ValidDateTexts == {"2024-01-01", "2024-06-01", "2024-06-10"}

AddedWithoutDueDate(d, d2, report) ==
    LET rec == Stored(d2)[Len(Stored(d2))]
    IN  /\ report.ret
        /\ report.warn
        /\ Len(Stored(d2)) = Len(Stored(d)) + 1
        /\ rec.due_date = None
        /\ rec.description = report.args.add
        /\ rec.category = IF report.args.category = None THEN << >>
                          ELSE << report.args.category[1] >>
        /\ rec.priority = report.args.priority
        /\ rec.completed = FALSE

----------------------------------------------------------------------------
(* Store initialisation, stated for Spec: every command constructs the      *)
(* storage, so every command runs _ensure_todo_file once more               *)

\* C12: _ensure_todo_file is idempotent.  With the file absent it creates a
\* store that loads as the empty sequence, and listing it gives the
\* empty-result signal; with the file present it leaves the content as it is,
\* however often it runs, so stored records survive every later command.
C12_EnsureIdempotent ==
    [][LET d == _ensure_todo_file(disk)
       IN  /\ _ensure_todo_file(d) = d
           /\ disk.exists => d.text = disk.text
           /\ ~disk.exists =>
                   /\ d.exists
                   /\ json_valid(d.text)
                   /\ load_todos(d) = << >>
           /\ last'.op = "list" =>
                   /\ disk' = d
                   /\ disk.exists => Stored(disk') = Stored(disk)
                   /\ ~disk.exists => (last'.filtered = None /\ last'.out = None)]_vars

C12_Witness ==
    /\ last.op = "list"
    /\ last.out # None
    /\ Len(Stored(disk)) = MaxTodos
    /\ _ensure_todo_file(disk) = disk

----------------------------------------------------------------------------
(* Two processes on one file: each command loads the file, computes the    *)
(* list to save, opens the file for writing (which truncates it) and       *)
(* writes its text from offset 0 when the buffered file is closed.  Nothing *)
(* locks the file, so the steps of the two processes interleave freely.    *)

Procs == {1, 2}

ConcAddArgs == {Args(Some("task"), FALSE, None, None, None, None, None, FALSE, FALSE)}

ConcReport(op, p) == [op |-> op, proc |-> p]

\* the write of a whole text at offset 0 of a file another process may have
\* written since this process truncated it
save_flush(d, text) ==
    [d EXCEPT !.text = text \o SubSeq(@, Len(text) + 1, Len(@))]

ConcLoaded(p, d, saved) ==
    /\ pc[p] = "idle"
    /\ json_valid(d.text)
    /\ FolderDepthOk(d)
    /\ disk' = d
    /\ pc' = [pc EXCEPT ![p] = "loaded"]
    /\ input' = [input EXCEPT ![p] = [seen |-> d.text, new |-> saved.text]]
    /\ last' = ConcReport("load", p)
    /\ UNCHANGED output

ConcNotFound(p, d) ==
    /\ pc[p] = "idle"
    /\ json_valid(d.text)
    /\ FolderDepthOk(d)
    /\ disk' = d
    /\ output' = [output EXCEPT ![p] = "not_found"]
    /\ last' = ConcReport("not_found", p)
    /\ UNCHANGED <<now, pc, input>>

ConcAdd(p, args) ==
    LET d == _ensure_todo_file(disk)
        r == handle_add_task(d, args, now)
    IN  /\ validate_args(args)
        /\ Truthy(args.add)
        /\ json_valid(d.text)
        /\ Len(load_todos(d)) < MaxTodos
        /\ now.us < MaxMicro \/ now.sec < MaxClock
        /\ ConcLoaded(p, d, r.disk)
        /\ now' = NextInstant(now)

ConcComplete(p, args) ==
    LET d == _ensure_todo_file(disk)
        r == mark_completed(d, args.complete[1])
    IN  /\ validate_args(args)
        /\ ~Truthy(args.add)
        /\ ~(args.list \/ args.completed \/ args.pending)
        /\ Truthy(args.complete)
        /\ json_valid(d.text)
        /\ IF r.ret THEN ConcLoaded(p, d, r.disk) /\ UNCHANGED now
                    ELSE ConcNotFound(p, d)

ConcDelete(p, args) ==
    LET d == _ensure_todo_file(disk)
        r == remove_todo(d, args.delete[1])
    IN  /\ validate_args(args)
        /\ ~Truthy(args.add)
        /\ ~(args.list \/ args.completed \/ args.pending)
        /\ ~Truthy(args.complete)
        /\ Truthy(args.delete)
        /\ json_valid(d.text)
        /\ IF r.ret THEN ConcLoaded(p, d, r.disk) /\ UNCHANGED now
                    ELSE ConcNotFound(p, d)

\* json.load raises JSONDecodeError on a file that is empty or holds the
\* remains of two overlapping writes; the command ends with the traceback
ConcLoadFails(p) ==
    LET d == _ensure_todo_file(disk)
    IN  /\ pc[p] = "idle"
        /\ ~json_valid(d.text)
        /\ output[p] # "error"
        /\ disk' = d
        /\ output' = [output EXCEPT ![p] = "error"]
        /\ last' = ConcReport("load_error", p)
        /\ UNCHANGED <<now, pc, input>>

ConcOpen(p) ==
    /\ pc[p] = "loaded"
    /\ disk' = save_open(disk)
    /\ pc' = [pc EXCEPT ![p] = "writing"]
    /\ last' = ConcReport("open", p)
    /\ UNCHANGED <<now, input, output>>

ConcWrite(p) ==
    /\ pc[p] = "writing"
    /\ disk' = save_flush(disk, input[p].new)
    /\ pc' = [pc EXCEPT ![p] = "idle"]
    /\ output' = [output EXCEPT ![p] = "ok"]
    /\ last' = ConcReport("save", p)
    /\ UNCHANGED <<now, input>>

ConcTick ==
    /\ \/ now.us < MaxMicro /\ now' = [now EXCEPT !.us = @ + 1]
       \/ now.sec < MaxClock /\ now' = [sec |-> now.sec + 1, us |-> 0]
    /\ last' = ConcReport("tick", 0)
    /\ UNCHANGED <<disk, fvars>>

InitConc ==
    /\ now = Epoch
    /\ disk = NoDisk
    /\ last = ConcReport("init", 0)
    /\ pc = [p \in Procs |-> "idle"]
    /\ input = [p \in Procs |-> [seen |-> << >>, new |-> << >>]]
    /\ output = [p \in Procs |-> "none"]

NextConc ==
    \/ ConcTick
    \/ \E p \in Procs, args \in ConcAddArgs : ConcAdd(p, args)
    \/ \E p \in Procs, args \in CompleteArgs : ConcComplete(p, args)
    \/ \E p \in Procs, args \in DeleteArgs : ConcDelete(p, args)
    \/ \E p \in Procs : ConcLoadFails(p)
    \/ \E p \in Procs : ConcOpen(p)
    \/ \E p \in Procs : ConcWrite(p)

SpecConc == InitConc /\ [][NextConc]_vars

\* C13: when the load and save steps of two processes interleave, the file
\* after a save holds exactly the text that save wrote, computed from what
\* its process loaded (so a change the other process saved in between is
\* gone), and no process is ever given an error.
C13_LastSaveWinsSilently ==
    [][/\ last'.op = "save" => disk'.text = input[last'.proc].new
       /\ \A p \in Procs : output'[p] # "error"]_vars

====
